---- MODULE Spec2Model ----
(***************************************************************************)
(* Binary message codec of the buffer exercises: parseMessage (decode),    *)
(* buildMessage (encode), the module-level sample buffer binaryMessage,    *)
(* and the hexdump generator, which prints one line per 16 bytes.          *)
(* Buffers are sequences of bytes (JavaScript offset k is index k + 1);    *)
(* JavaScript strings are sequences of UTF-16 code units.                  *)
(***************************************************************************)
EXTENDS Integers, Sequences, FiniteSets, TLC

VARIABLES binaryMessage, call, outcome, pc, loopOffset, consoleCalls, consoleArgs,
          heap, history

\* pc: "idle" before a call, "loop" inside hexdump's for loop, "done" once
\* the call has returned or thrown; loopOffset: hexdump's loop variable
\* offset;
\* consoleCalls: the number of console.log calls made so far; consoleArgs:
\* the arguments of the latest one; heap: the bytes of the buffers the
\* callers hold, by reference; history: the calls that are over.
vars ==
  <<binaryMessage, call, outcome, pc, loopOffset, consoleCalls, consoleArgs,
    heap, history>>

(***************************************************************************)
(* Bounds of the explored inputs.                                          *)
(***************************************************************************)
MaxStrLen == 2
MaxBufLen == 2
MaxTail == 2
MaxDeclared == 2
MaxDumpLen == 33
MaxCalls == 3

(***************************************************************************)
(* Widths of the header fields.                                            *)
(***************************************************************************)
U8 == 2 ^ 8
U16 == 2 ^ 16

\* A value of the 32-bit field and of its out-of-range neighbours, kept as
\* hi * 2^16 + lo with lo in 0..2^16-1 (the checker's integers are 32 bit
\* signed): it lies in [0, 2^32) exactly when hi lies in [0, 2^16).
Wide(hi, lo) == [hi |-> hi, lo |-> lo]

(***************************************************************************)
(* Values a call hands back: nothing, a Buffer, a parsed message object;   *)
(* and what it throws.                                                     *)
(***************************************************************************)
NoValue == [kind |-> "none"]
NoError == [code |-> "none"]
BufferValue(bytes) == [kind |-> "buffer", bytes |-> bytes]
StringValue(units) == [kind |-> "string", units |-> units]
NoCall == [op |-> "none"]

\* RangeError [ERR_OUT_OF_RANGE] raised by a Buffer write; at names the
\* argument of buildMessage whose write raised it.
RangeError(at) == [code |-> "ERR_OUT_OF_RANGE", at |-> at]

Return(v) == [ret |-> v, thrown |-> NoError]
Throw(e) == [ret |-> NoValue, thrown |-> e]

(***************************************************************************)
(* UTF-8: Buffer.from(string, "utf8") and buf.toString("utf8", start).     *)
(***************************************************************************)
IsHigh(u) == u >= 55296 /\ u <= 56319
IsLow(u) == u >= 56320 /\ u <= 57343

\* The UTF-8 bytes of one code point.
EncodeCodePoint(c) ==
  IF c < 128 THEN <<c>>
  ELSE IF c < 2048 THEN <<192 + (c \div 64), 128 + (c % 64)>>
  ELSE IF c < 65536
    THEN <<224 + (c \div 4096), 128 + ((c \div 64) % 64), 128 + (c % 64)>>
  ELSE <<240 + (c \div 262144), 128 + ((c \div 4096) % 64),
         128 + ((c \div 64) % 64), 128 + (c % 64)>>

RECURSIVE Utf8EncodeFrom(_, _)
Utf8EncodeFrom(units, i) ==
  IF i > Len(units) THEN <<>>
  ELSE LET u == units[i] IN
    IF IsHigh(u) /\ i < Len(units) /\ IsLow(units[i + 1])
      THEN EncodeCodePoint(65536 + (u - 55296) * 1024 + (units[i + 1] - 56320))
             \o Utf8EncodeFrom(units, i + 2)
    ELSE IF IsHigh(u) \/ IsLow(u)
      THEN <<239, 191, 189>> \o Utf8EncodeFrom(units, i + 1)
    ELSE EncodeCodePoint(u) \o Utf8EncodeFrom(units, i + 1)

Utf8Encode(units) == Utf8EncodeFrom(units, 1)

\* The UTF-16 code units of one decoded code point.
CodeUnits(c) ==
  IF c < 65536 THEN <<c>>
  ELSE <<55296 + ((c - 65536) \div 1024), 56320 + ((c - 65536) % 1024)>>

\* Number of continuation bytes the lead byte b asks for (0: none, -1: invalid).
Needed(b) ==
  IF b < 128 THEN 0
  ELSE IF b >= 194 /\ b <= 223 THEN 1
  ELSE IF b >= 224 /\ b <= 239 THEN 2
  ELSE IF b >= 240 /\ b <= 244 THEN 3
  ELSE -1

\* Range of the first continuation byte after lead byte b.
Lower(b) == IF b = 224 THEN 160 ELSE IF b = 240 THEN 144 ELSE 128
Upper(b) == IF b = 237 THEN 159 ELSE IF b = 244 THEN 143 ELSE 191

\* Is bytes[i + k] an acceptable k-th continuation byte of the lead at i.
ContOk(bytes, i, k) ==
  /\ i + k <= Len(bytes)
  /\ bytes[i + k] >= (IF k = 1 THEN Lower(bytes[i]) ELSE 128)
  /\ bytes[i + k] <= (IF k = 1 THEN Upper(bytes[i]) ELSE 191)

\* How many of the n continuation bytes after the lead at i are acceptable.
ContRun(bytes, i, n) ==
  IF n >= 1 /\ ContOk(bytes, i, 1)
    THEN IF n >= 2 /\ ContOk(bytes, i, 2)
           THEN IF n >= 3 /\ ContOk(bytes, i, 3) THEN 3 ELSE 2
           ELSE 1
    ELSE 0

LeadBits(b, n) ==
  IF n = 1 THEN b - 192 ELSE IF n = 2 THEN b - 224 ELSE b - 240

CodePointAt(bytes, i, n) ==
  IF n = 1 THEN LeadBits(bytes[i], 1) * 64 + (bytes[i + 1] - 128)
  ELSE IF n = 2
    THEN LeadBits(bytes[i], 2) * 4096 + (bytes[i + 1] - 128) * 64
           + (bytes[i + 2] - 128)
  ELSE LeadBits(bytes[i], 3) * 262144 + (bytes[i + 1] - 128) * 4096
         + (bytes[i + 2] - 128) * 64 + (bytes[i + 3] - 128)

\* Malformed input decodes to U+FFFD, one per maximal ill-formed subpart.
RECURSIVE Utf8DecodeFrom(_, _)
Utf8DecodeFrom(bytes, i) ==
  IF i > Len(bytes) THEN <<>>
  ELSE LET n == Needed(bytes[i]) IN
    IF n = 0 THEN <<bytes[i]>> \o Utf8DecodeFrom(bytes, i + 1)
    ELSE IF n = -1 THEN <<65533>> \o Utf8DecodeFrom(bytes, i + 1)
    ELSE LET k == ContRun(bytes, i, n) IN
      IF k = n
        THEN CodeUnits(CodePointAt(bytes, i, n))
               \o Utf8DecodeFrom(bytes, i + n + 1)
        ELSE <<65533>> \o Utf8DecodeFrom(bytes, i + k + 1)

\* buf.toString("utf8", start): the text of the bytes from offset start on.
ToStringUtf8(buf, start) == Utf8DecodeFrom(buf, start + 1)

(***************************************************************************)
(* Buffer reads.                                                           *)
(***************************************************************************)
readUint32BE(buf, offset) ==
  Wide(buf[offset + 1] * 256 + buf[offset + 2],
       buf[offset + 3] * 256 + buf[offset + 4])

readUint16BE(buf, offset) == buf[offset + 1] * 256 + buf[offset + 2]

\* Variant: the bytes are shifted by 16 and 8 bits instead of 0 and 8.
readUint16LE_wrongShift(buf, offset) ==
  buf[offset + 1] * 65536 + buf[offset + 2] * 256

readUint16LE(buf, offset) == buf[offset + 1] + buf[offset + 2] * 256

(***************************************************************************)
(* Buffer writes.  Each checks the value against the field's range first   *)
(* and stores nothing when the check fails.                                *)
(***************************************************************************)
\* Variant: the lower limit is not checked.
OutOfRange_noMin(value, min, max) == value > max

\* checkInt of the Buffer write methods: value > max || value < min.
OutOfRange(value, min, max) == value > max \/ value < min

\* A store into a byte array keeps the value's low 8 bits.
ByteOf(value, k) == (value \div (U8 ^ k)) % U8

\* value > 2^32 - 1 || value < 0, on the two halves of value.
writeUInt32BE(buf, value, offset) ==
  IF OutOfRange(value.hi, 0, U16 - 1) THEN [buf |-> buf, ok |-> FALSE]
  ELSE [buf |-> [buf EXCEPT ![offset + 1] = ByteOf(value.hi, 1),
                            ![offset + 2] = ByteOf(value.hi, 0),
                            ![offset + 3] = ByteOf(value.lo, 1),
                            ![offset + 4] = ByteOf(value.lo, 0)],
        ok |-> TRUE]

\* Variant: the upper limit is one too high.
writeUInt16BE_limitOffByOne(buf, value, offset) ==
  IF value > U16 \/ value < 0 THEN [buf |-> buf, ok |-> FALSE]
  ELSE [buf |-> [buf EXCEPT ![offset + 1] = ByteOf(value, 1),
                            ![offset + 2] = ByteOf(value, 0)],
        ok |-> TRUE]

writeUInt16BE(buf, value, offset) ==
  IF OutOfRange(value, 0, U16 - 1) THEN [buf |-> buf, ok |-> FALSE]
  ELSE [buf |-> [buf EXCEPT ![offset + 1] = ByteOf(value, 1),
                            ![offset + 2] = ByteOf(value, 0)],
        ok |-> TRUE]

\* Variant: the two bytes are stored most significant first.
writeUInt16LE_bigEndian(buf, value, offset) ==
  IF value > U16 - 1 \/ value < 0 THEN [buf |-> buf, ok |-> FALSE]
  ELSE [buf |-> [buf EXCEPT ![offset + 1] = ByteOf(value, 1),
                            ![offset + 2] = ByteOf(value, 0)],
        ok |-> TRUE]

writeUInt16LE(buf, value, offset) ==
  IF OutOfRange(value, 0, U16 - 1) THEN [buf |-> buf, ok |-> FALSE]
  ELSE [buf |-> [buf EXCEPT ![offset + 1] = ByteOf(value, 0),
                            ![offset + 2] = ByteOf(value, 1)],
        ok |-> TRUE]

\* Variant: one byte more than asked for.
BufferAlloc_oneMore(size) == [i \in 1..(size + 1) |-> 0]

\* Buffer.alloc(size): size zero bytes.
BufferAlloc(size) == [i \in 1..size |-> 0]

\* Buffer.from(payload, "utf8"): the UTF-8 bytes of a string, a copy of the
\* bytes of a Buffer (the encoding is then ignored).
BufferFrom(payload) ==
  IF payload.kind = "string" THEN Utf8Encode(payload.units) ELSE payload.bytes

\* source.copy(target, targetStart): target with source's bytes from
\* offset targetStart on, as far as they fit.
BufferCopy(source, target, targetStart) ==
  LET room == Len(target) - targetStart
      copied == IF Len(source) < room THEN Len(source) ELSE room
  IN SubSeq(target, 1, targetStart) \o SubSeq(source, 1, copied)
       \o SubSeq(target, targetStart + copied + 1, Len(target))

(***************************************************************************)
(* parseMessage: every read is from the module-level binaryMessage; the    *)
(* parameter buf is not used.                                              *)
(***************************************************************************)
\* boundsError of the Buffer read methods, for a read of width bytes.
ReadError(buf, offset, width) ==
  IF offset + width <= Len(buf) THEN NoError
  ELSE IF Len(buf) < width THEN [code |-> "ERR_BUFFER_OUT_OF_BOUNDS"]
  ELSE [code |-> "ERR_OUT_OF_RANGE", at |-> "offset"]

MessageValue(messageId, length, flags, payload) ==
  [kind |-> "message", messageId |-> messageId, length |-> length,
   flags |-> flags, payload |-> payload]

\* Variant: the payload text starts one byte early, at offset 7.
parseMessage_payloadFrom7(buf) ==
  Return(MessageValue(readUint32BE(binaryMessage, 0),
                      readUint16BE(binaryMessage, 4),
                      readUint16LE(binaryMessage, 6),
                      StringValue(ToStringUtf8(binaryMessage, 7))))

\* Variant: the reads are from the buffer allocated last.
parseMessage_readsLatest(buf) ==
  LET latest == IF heap = <<>> THEN binaryMessage ELSE heap[Len(heap)]
  IN Return(MessageValue(readUint32BE(latest, 0),
                         readUint16BE(latest, 4),
                         readUint16LE(latest, 6),
                         StringValue(ToStringUtf8(latest, 8))))

parseMessage(buf) ==
  IF ReadError(binaryMessage, 0, 4) # NoError
    THEN Throw(ReadError(binaryMessage, 0, 4))
  ELSE IF ReadError(binaryMessage, 4, 2) # NoError
    THEN Throw(ReadError(binaryMessage, 4, 2))
  ELSE IF ReadError(binaryMessage, 6, 2) # NoError
    THEN Throw(ReadError(binaryMessage, 6, 2))
  ELSE Return(MessageValue(readUint32BE(binaryMessage, 0),
                           readUint16BE(binaryMessage, 4),
                           readUint16LE(binaryMessage, 6),
                           StringValue(ToStringUtf8(binaryMessage, 8))))

(***************************************************************************)
(* buildMessage.                                                           *)
(***************************************************************************)
\* Variant: a failed write is caught and the buffer filled so far returned.
buildMessage_returnsPartial(messageId, flags, payload) ==
  LET payloadBuf == BufferFrom(payload)
      length == Len(payloadBuf)
      buf == BufferAlloc(4 + 2 + 2 + length)
      w1 == writeUInt32BE(buf, messageId, 0)
      w2 == writeUInt16BE(w1.buf, length, 4)
      w3 == writeUInt16LE(w2.buf, flags, 6)
  IN IF ~w1.ok
       THEN [ret |-> BufferValue(w1.buf), thrown |-> RangeError("messageId")]
     ELSE IF ~w2.ok
       THEN [ret |-> BufferValue(w2.buf), thrown |-> RangeError("length")]
     ELSE IF ~w3.ok
       THEN [ret |-> BufferValue(w3.buf), thrown |-> RangeError("flags")]
     ELSE Return(BufferValue(BufferCopy(payloadBuf, w3.buf, 8)))

buildMessage(messageId, flags, payload) ==
  LET payloadBuf == BufferFrom(payload)
      length == Len(payloadBuf)
      buf == BufferAlloc(4 + 2 + 2 + length)
      w1 == writeUInt32BE(buf, messageId, 0)
      w2 == writeUInt16BE(w1.buf, length, 4)
      w3 == writeUInt16LE(w2.buf, flags, 6)
  IN IF ~w1.ok THEN Throw(RangeError("messageId"))
     ELSE IF ~w2.ok THEN Throw(RangeError("length"))
     ELSE IF ~w3.ok THEN Throw(RangeError("flags"))
     ELSE Return(BufferValue(BufferCopy(payloadBuf, w3.buf, 8)))

(***************************************************************************)
(* hexdump.  Text is a sequence of character codes.                        *)
(***************************************************************************)
bytesPerLine == 16

Undefined == [kind |-> "undefined"]

\* A Buffer of length bytes repeating the bytes of fill, as
\* Buffer.alloc(length, fill) makes it, kept by its description.
FilledBuffer(length, fill) ==
  [kind |-> "filled", length |-> length, fill |-> fill]

\* buf.length
ByteLength(buf) == IF buf.kind = "filled" THEN buf.length ELSE Len(buf.bytes)

\* Variant: the slice reaches one byte further, to offset end.
Slice_oneMore(buf, start, end) ==
  LET stop == IF end + 1 < ByteLength(buf) THEN end + 1 ELSE ByteLength(buf)
  IN IF buf.kind = "filled"
       THEN [i \in 1..(stop - start) |->
               buf.fill[((start + i - 1) % Len(buf.fill)) + 1]]
       ELSE SubSeq(buf.bytes, start + 1, stop)

\* buf.slice(start, end): the bytes at offsets start .. end-1, as far as
\* the buffer reaches.
Slice(buf, start, end) ==
  LET stop == IF end < ByteLength(buf) THEN end ELSE ByteLength(buf)
  IN IF buf.kind = "filled"
       THEN [i \in 1..(stop - start) |->
               buf.fill[((start + i - 1) % Len(buf.fill)) + 1]]
       ELSE SubSeq(buf.bytes, start + 1, stop)

HexDigit(d) == IF d < 10 THEN 48 + d ELSE 87 + d

\* n.toString(16)
RECURSIVE ToString16(_)
ToString16(n) ==
  IF n < 16 THEN <<HexDigit(n)>>
  ELSE ToString16(n \div 16) \o <<HexDigit(n % 16)>>

\* text.padStart(width, fill) and text.padEnd(width, fill), fill one character.
PadStart(text, width, fill) ==
  IF Len(text) >= width THEN text
  ELSE [i \in 1..(width - Len(text)) |-> fill] \o text

\* Variant: nothing is appended.
PadEnd_noPad(text, width, fill) == text

PadEnd(text, width, fill) ==
  IF Len(text) >= width THEN text
  ELSE text \o [i \in 1..(width - Len(text)) |-> fill]

\* parts.join(separator)
RECURSIVE JoinFrom(_, _, _)
JoinFrom(parts, separator, i) ==
  IF i > Len(parts) THEN <<>>
  ELSE IF i = Len(parts) THEN parts[i]
  ELSE parts[i] \o separator \o JoinFrom(parts, separator, i + 1)

Join(parts, separator) == JoinFrom(parts, separator, 1)

\* Variant: no padding to two digits.
HexByte_noPad(b) == ToString16(b)

\* b.toString(16).padStart(2, "0")
HexByte(b) == PadStart(ToString16(b), 2, 48)

\* Array.from(line).map(b => hex of b).join(" ")
HexColumn(line) == Join([i \in 1..Len(line) |-> HexByte(line[i])], <<32>>)

\* Variant: the upper limit is exclusive.
AsciiChar_exclusive(b) == IF b >= 32 /\ b < 126 THEN b ELSE 46

\* b >= 32 && b <= 126 ? String.fromCharCode(b) : "."
AsciiChar(b) == IF b >= 32 /\ b <= 126 THEN b ELSE 46

\* Array.from(line).map(b => printable b or ".").join("")
AsciiColumn(line) == [i \in 1..Len(line) |-> AsciiChar(line[i])]

\* Variant: padded to two digits only.
OffsetText_pad2(off) == PadStart(ToString16(off), 2, 48)

\* offset.toString(16).padStart(4, "0")
OffsetText(off) == PadStart(ToString16(off), 4, 48)

\* The five arguments of the console.log call of the iteration at off.
LineArgs(buf, off) ==
  LET line == Slice(buf, off, off + bytesPerLine)
  IN <<OffsetText(off), <<32, 32>>,
       PadEnd(HexColumn(line), bytesPerLine * 3, 32), <<32>>,
       AsciiColumn(line)>>

\* The text console.log writes for string arguments: the arguments
\* separated by single spaces.
ConsoleLine(args) == Join(args, <<32>>)

\* Number.prototype.toString(radix) throws a RangeError unless
\* 2 <= radix <= 36.
RadixError(radix) ==
  IF radix >= 2 /\ radix <= 36 THEN NoError
  ELSE [code |-> "ERR_RADIX", at |-> "toString"]

\* Variant: the offset is formatted with toString(61).
LineError_radix61(buf, off) == RadixError(61)

\* The error the iteration at off throws, if any: slice clamps to the end
\* of the buffer and the pads never fail, which leaves the two
\* toString(16) calls.
LineError(buf, off) == RadixError(16)

\* Variant: offset += 1.
NextOffset_byOne(off) == off + 1

\* Variant: offset is not advanced.
NextOffset_stuck(off) == off

\* offset += bytesPerLine
NextOffset(off) == off + bytesPerLine

\* Variant: the loop also runs at offset = buf.length.
LoopCondition_inclusive(off, buf) == off <= ByteLength(buf)

\* offset < buf.length
LoopCondition(off, buf) == off < ByteLength(buf)

(***************************************************************************)
(* The inputs explored.                                                    *)
(***************************************************************************)
SeqsUpTo(S, n) == UNION {[1..k -> S] : k \in 0..n}

\* "A", e-acute, the euro sign, and the two halves of a surrogate pair.
StrUnits == {65, 233, 8364, 55357, 56832}
BufBytes == {0, 65, 255}
TailBytes == {72, 255}

Hello == <<72, 101, 108, 108, 111>>
Test == <<84, 101, 115, 116>>

\* Payloads at and one past the largest length the 16-bit field holds.
BigPayloads == {BufferValue([i \in 1..n |-> 171]) : n \in {U16 - 1, U16}}

\* -1, 0, 4128, 5000, 0x01020304, 2^32 - 1, 2^32.
MessageIds ==
  {Wide(-1, U16 - 1), Wide(0, 0), Wide(0, 4128), Wide(0, 5000),
   Wide(258, 772), Wide(U16 - 1, U16 - 1), Wide(U16, 0)}
FlagValues == {-1, 0, 1, 3, 258, U16 - 1, U16}
Payloads ==
  {StringValue(u) : u \in SeqsUpTo(StrUnits, MaxStrLen) \cup {Hello, Test}}
    \cup {BufferValue(b) : b \in SeqsUpTo(BufBytes, MaxBufLen)}
    \cup BigPayloads

\* Buffers handed to parseMessage: a header declaring a length, then a tail
\* that may be shorter or longer than declared; every prefix of such a
\* buffer; the sample buffer itself.
HeaderBytes(id, len, flags) ==
  <<ByteOf(id.hi, 1), ByteOf(id.hi, 0), ByteOf(id.lo, 1), ByteOf(id.lo, 0),
    ByteOf(len, 1), ByteOf(len, 0), ByteOf(flags, 0), ByteOf(flags, 1)>>

WireBuffers ==
  {HeaderBytes(id, len, flags) \o tail :
     id \in {Wide(0, 0), Wide(0, 4128), Wide(258, 772)}, len \in 0..MaxDeclared, flags \in {1, 258},
     tail \in SeqsUpTo(TailBytes, MaxTail)}

SampleBytes == <<0, 0, 16, 32, 0, 5, 1, 0, 72, 101, 108, 108, 111>>

ParseInputs ==
  WireBuffers \cup {SubSeq(w, 1, k) : w \in WireBuffers, k \in 0..7}
    \cup {SampleBytes}

\* "Hello World! This is a buffer hexdump example."
TestBuf ==
  <<72, 101, 108, 108, 111, 32, 87, 111, 114, 108, 100, 33, 32, 84,
    104, 105, 115, 32, 105, 115, 32, 97, 32, 98, 117, 102, 102, 101,
    114, 32, 104, 101, 120, 100, 117, 109, 112, 32, 101, 120, 97, 109,
    112, 108, 101, 46>>

\* Every byte value once, in order.
Ramp == [i \in 1..256 |-> i - 1]

\* Buffers handed to hexdump: runs of bytes of every length up to
\* MaxDumpLen, the 256 byte values, the text of the source's own test, and
\* a buffer one byte longer than 2^16.
DumpBuffers ==
  {BufferValue(SubSeq(Ramp, start, start + n - 1)) :
     start \in {1, 28, 120}, n \in 0..MaxDumpLen}
    \cup {BufferValue(Ramp), BufferValue(TestBuf),
          FilledBuffer(U16 + 1, <<0, 127, 65>>)}

(***************************************************************************)
(* The state machine: a caller makes one call and keeps what it got; after *)
(* a successful buildMessage it may parse the built buffer back.  A call   *)
(* of hexdump runs its loop one iteration at a time.                       *)
(***************************************************************************)
Init ==
  /\ binaryMessage = SampleBytes
  /\ call = NoCall
  /\ outcome = Return(NoValue)
  /\ pc = "idle"
  /\ loopOffset = 0
  /\ consoleCalls = 0
  /\ consoleArgs = <<>>
  /\ heap = <<>>
  /\ history = <<>>

BuildMessage ==
  /\ call = NoCall
  /\ \E messageId \in MessageIds, flags \in FlagValues, payload \in Payloads :
       /\ call' = [op |-> "buildMessage", messageId |-> messageId,
                   flags |-> flags, payload |-> payload]
       /\ outcome' = buildMessage(messageId, flags, payload)
  /\ pc' = "done"
  /\ UNCHANGED <<binaryMessage, loopOffset, consoleCalls, consoleArgs,
                 heap, history>>

ParseMessage ==
  /\ call = NoCall
  /\ \E buf \in ParseInputs :
       /\ call' = [op |-> "parseMessage", buf |-> buf, of |-> NoCall]
       /\ outcome' = parseMessage(buf)
  /\ pc' = "done"
  /\ UNCHANGED <<binaryMessage, loopOffset, consoleCalls, consoleArgs,
                 heap, history>>

\* const myMessage = buildMessage(...); parseMessage(myMessage)
ParseBack ==
  /\ call.op = "buildMessage"
  /\ outcome.thrown = NoError
  /\ call' = [op |-> "parseMessage", buf |-> outcome.ret.bytes, of |-> call]
  /\ outcome' = parseMessage(outcome.ret.bytes)
  /\ UNCHANGED <<binaryMessage, pc, loopOffset, consoleCalls, consoleArgs,
                 heap, history>>

\* const m = parseMessage(buf); buildMessage(m.messageId, m.flags, m.payload)
BuildBack ==
  /\ call.op = "parseMessage"
  /\ call.of = NoCall
  /\ outcome.thrown = NoError
  /\ call' = [op |-> "buildMessage", messageId |-> outcome.ret.messageId,
              flags |-> outcome.ret.flags, payload |-> outcome.ret.payload,
              of |-> call]
  /\ outcome' = buildMessage(outcome.ret.messageId, outcome.ret.flags,
                             outcome.ret.payload)
  /\ UNCHANGED <<binaryMessage, pc, loopOffset, consoleCalls, consoleArgs,
                 heap, history>>

\* hexdump(buf) is entered: let offset = 0.
Hexdump ==
  /\ call = NoCall
  /\ \E buf \in DumpBuffers : call' = [op |-> "hexdump", buf |-> buf]
  /\ pc' = "loop"
  /\ loopOffset' = 0
  /\ UNCHANGED <<binaryMessage, outcome, consoleCalls, consoleArgs,
                 heap, history>>

\* One iteration of the for loop: the line is printed and loopOffset
\* advances, unless building the line throws.
HexdumpLine ==
  /\ pc = "loop"
  /\ LoopCondition(loopOffset, call.buf)
  /\ IF LineError(call.buf, loopOffset) # NoError
       THEN /\ outcome' = Throw(LineError(call.buf, loopOffset))
            /\ pc' = "done"
            /\ UNCHANGED <<loopOffset, consoleCalls, consoleArgs>>
       ELSE /\ consoleArgs' = LineArgs(call.buf, loopOffset)
            /\ consoleCalls' = consoleCalls + 1
            /\ loopOffset' = NextOffset(loopOffset)
            /\ UNCHANGED <<outcome, pc>>
  /\ UNCHANGED <<binaryMessage, call, heap, history>>

\* The loop condition fails: hexdump returns, with no value.
HexdumpReturn ==
  /\ pc = "loop"
  /\ ~LoopCondition(loopOffset, call.buf)
  /\ outcome' = Return(Undefined)
  /\ pc' = "done"
  /\ UNCHANGED <<binaryMessage, call, loopOffset, consoleCalls, consoleArgs,
                 heap, history>>

Next ==
  \/ BuildMessage
  \/ ParseMessage
  \/ ParseBack
  \/ BuildBack
  \/ Hexdump
  \/ HexdumpLine
  \/ HexdumpReturn

Spec == Init /\ [][Next]_vars

(***************************************************************************)
(* The calls of hexdump alone, from the entry of the function on, for the  *)
(* buffers given byte by byte.  Once entered, the call runs on: the        *)
(* function is synchronous and the engine executes its loop to the end     *)
(* without waiting for anything.                                           *)
(***************************************************************************)
LiveBuffers == {b \in DumpBuffers : b.kind = "buffer"}

LiveInit ==
  /\ binaryMessage = SampleBytes
  /\ \E buf \in LiveBuffers : call = [op |-> "hexdump", buf |-> buf]
  /\ outcome = Return(NoValue)
  /\ pc = "loop"
  /\ loopOffset = 0
  /\ consoleCalls = 0
  /\ consoleArgs = <<>>
  /\ heap = <<>>
  /\ history = <<>>

LiveNext ==
  \/ HexdumpLine
  \/ HexdumpReturn

LiveSpec ==
  LiveInit /\ [][LiveNext]_vars
    /\ WF_vars(HexdumpLine) /\ WF_vars(HexdumpReturn)

(***************************************************************************)
(* Several calls, one after the other in any order (the functions are      *)
(* synchronous).  Buffers are references: heap[r] holds the bytes of the   *)
(* buffer r, a call is handed the reference of a buffer the caller holds,  *)
(* and the buffer buildMessage returns joins those the caller holds.       *)
(* history lists the calls that have returned or thrown.                   *)
(***************************************************************************)
\* Variant: the storage allocated last is handed out again.
AllocRegion_reuse(store) == Len(store)

\* Buffer.alloc gives storage no other buffer has.
AllocRegion(store) == Len(store) + 1

\* Variant: the bytes go into the buffer allocated last.
Store_inPlace(store, r, bytes) == [store EXCEPT ![Len(store)] = bytes]

\* The store once the buffer r holds bytes.
Store(store, r, bytes) ==
  IF r > Len(store) THEN Append(store, bytes) ELSE [store EXCEPT ![r] = bytes]

\* The buffers the callers start with: a payload and a wire message.
CallerBuffers == << <<72, 105>>, <<0, 0, 0, 7, 0, 1, 2, 1, 255>> >>

CallIds == {Wide(0, 7)}
CallFlags == {0, 258, U16}
CallText == StringValue(<<233>>)

CallsInit ==
  /\ binaryMessage = SampleBytes
  /\ call = NoCall
  /\ outcome = Return(NoValue)
  /\ pc = "idle"
  /\ loopOffset = 0
  /\ consoleCalls = 0
  /\ consoleArgs = <<>>
  /\ heap = CallerBuffers
  /\ history = <<>>

\* buildMessage(messageId, flags, payload), the payload a string (arg = 0)
\* or the buffer arg.
CallBuild ==
  /\ pc = "idle"
  /\ Len(history) < MaxCalls
  /\ \E messageId \in CallIds, flags \in CallFlags, arg \in 0..Len(heap) :
       LET payload == IF arg = 0 THEN CallText ELSE BufferValue(heap[arg])
           result == buildMessage(messageId, flags, payload)
           region == AllocRegion(heap)
       IN /\ call' = [op |-> "buildMessage", messageId |-> messageId,
                      flags |-> flags, payload |-> payload, arg |-> arg,
                      ret |-> IF result.thrown = NoError THEN region ELSE 0]
          /\ outcome' = result
          /\ heap' = IF result.thrown = NoError
                       THEN Store(heap, region, result.ret.bytes)
                       ELSE heap
  /\ pc' = "done"
  /\ UNCHANGED <<loopOffset, consoleCalls, consoleArgs, binaryMessage, history>>

\* parseMessage(buf), buf the buffer arg.
CallParse ==
  /\ pc = "idle"
  /\ Len(history) < MaxCalls
  /\ \E arg \in 1..Len(heap) :
       /\ call' = [op |-> "parseMessage", buf |-> heap[arg], of |-> NoCall,
                   arg |-> arg]
       /\ outcome' = parseMessage(heap[arg])
  /\ pc' = "done"
  /\ UNCHANGED <<loopOffset, consoleCalls, consoleArgs, binaryMessage,
                 heap, history>>

\* hexdump(buf), buf the buffer arg; the loop is HexdumpLine, HexdumpReturn.
CallHexdump ==
  /\ pc = "idle"
  /\ Len(history) < MaxCalls
  /\ \E arg \in 1..Len(heap) :
       call' = [op |-> "hexdump", buf |-> BufferValue(heap[arg]), arg |-> arg]
  /\ pc' = "loop"
  /\ loopOffset' = 0
  /\ UNCHANGED <<outcome, consoleCalls, consoleArgs, binaryMessage,
                 heap, history>>

\* The call is over: the caller has its result and is free to call again.
CallReturn ==
  /\ pc = "done"
  /\ history' = Append(history, [call |-> call, outcome |-> outcome,
                                 logged |-> consoleCalls])
  /\ call' = NoCall
  /\ outcome' = Return(NoValue)
  /\ pc' = "idle"
  /\ UNCHANGED <<loopOffset, consoleCalls, consoleArgs, binaryMessage, heap>>

CallsNext ==
  \/ CallBuild
  \/ CallParse
  \/ CallHexdump
  \/ HexdumpLine
  \/ HexdumpReturn
  \/ CallReturn

Calls == CallsInit /\ [][CallsNext]_vars

(***************************************************************************)
(* Vocabulary of the properties.                                           *)
(***************************************************************************)
\* The bytes a payload stands for: those of a Buffer, the UTF-8 text of a
\* string.
PayloadBytes(payload) ==
  IF payload.kind = "string" THEN Utf8Encode(payload.units) ELSE payload.bytes

InU16(v) == v >= 0 /\ v <= U16 - 1
InU32(w) == InU16(w.hi)

\* The fields a header's eight bytes spell out.
BigEndian32(b, offset) ==
  Wide(b[offset + 1] * U8 + b[offset + 2], b[offset + 3] * U8 + b[offset + 4])
BigEndian16(b, offset) == b[offset + 1] * U8 + b[offset + 2]
LittleEndian16(b, offset) == b[offset + 2] * U8 + b[offset + 1]

Failed == outcome.thrown # NoError
IsBuild == call.op = "buildMessage"
IsParse == call.op = "parseMessage"
IsParseBack == IsParse /\ call.of # NoCall

\* The two error kinds of encode: the range error of the length write, and
\* the range error of the message id or flags write.
PayloadTooLarge == RangeError("length")
FieldOverflow == {RangeError("messageId"), RangeError("flags")}

ValidBuild ==
  /\ IsBuild
  /\ InU32(call.messageId)
  /\ InU16(call.flags)
  /\ Len(PayloadBytes(call.payload)) <= U16 - 1

(***************************************************************************)
(* C1: round trip -- parsing the buffer built from in-range messageId,     *)
(* flags and a payload of at most 65535 bytes gives back exactly           *)
(* {messageId, length: byte length of payload, flags, payload}.            *)
(***************************************************************************)
C1_RoundTrip ==
  IsParseBack =>
    /\ ~Failed
    /\ outcome.ret.kind = "message"
    /\ outcome.ret.messageId = call.of.messageId
    /\ outcome.ret.length = Len(PayloadBytes(call.of.payload))
    /\ outcome.ret.flags = call.of.flags
    /\ PayloadBytes(outcome.ret.payload) = PayloadBytes(call.of.payload)

(***************************************************************************)
(* C2: for a buffer of at least 8 bytes the returned messageId, length and *)
(* flags are the big-endian value of bytes 0-3, the big-endian value of    *)
(* bytes 4-5 and the little-endian value of bytes 6-7 of the buffer passed *)
(* as the argument.                                                        *)
(***************************************************************************)
C2_FieldsFromArgument ==
  (IsParse /\ Len(call.buf) >= 8 /\ outcome.ret.kind = "message") =>
    /\ outcome.ret.messageId = BigEndian32(call.buf, 0)
    /\ outcome.ret.length = BigEndian16(call.buf, 4)
    /\ outcome.ret.flags = LittleEndian16(call.buf, 6)

(***************************************************************************)
(* C3: for valid input buildMessage returns a buffer holding messageId     *)
(* big-endian in bytes 0-3, the payload's byte length big-endian in bytes  *)
(* 4-5, flags little-endian in bytes 6-7 and the payload from offset 8 on; *)
(* buildMessage(4128, 1, "Hello") is 00 00 10 20 00 05 01 00 48 65 6c 6c   *)
(* 6f.                                                                     *)
(***************************************************************************)
C3_EncodeLayout ==
  /\ ValidBuild =>
       /\ ~Failed
       /\ outcome.ret.kind = "buffer"
       /\ Len(outcome.ret.bytes) >= 8
       /\ BigEndian32(outcome.ret.bytes, 0) = call.messageId
       /\ BigEndian16(outcome.ret.bytes, 4) = Len(PayloadBytes(call.payload))
       /\ LittleEndian16(outcome.ret.bytes, 6) = call.flags
       /\ SubSeq(outcome.ret.bytes, 9, Len(outcome.ret.bytes))
            = PayloadBytes(call.payload)
  /\ (/\ IsBuild
      /\ call.messageId = Wide(0, 4128)
      /\ call.flags = 1
      /\ call.payload = StringValue(Hello)) =>
       outcome.ret.bytes = <<0, 0, 16, 32, 0, 5, 1, 0, 72, 101, 108, 108, 111>>

\* A built message whose flags bytes differ and whose payload is not ASCII.
C3_Witness ==
  /\ ValidBuild
  /\ call.flags = 258
  /\ call.payload = StringValue(<<233, 8364>>)
  /\ outcome.ret.kind = "buffer"
  /\ Len(outcome.ret.bytes) = 13

(***************************************************************************)
(* C4: parseMessage fails (TruncatedHeader) for every buffer shorter than  *)
(* 8 bytes, the empty buffer included, and returns no message for it.      *)
(***************************************************************************)
C4_TruncatedHeader ==
  (IsParse /\ Len(call.buf) < 8) => (Failed /\ outcome.ret = NoValue)

(***************************************************************************)
(* C5: parseMessage fails (TruncatedPayload) for every buffer of at least  *)
(* 8 bytes whose length field exceeds the bytes after the header, instead  *)
(* of returning a shorter payload.                                         *)
(***************************************************************************)
C5_TruncatedPayload ==
  (/\ IsParse
   /\ Len(call.buf) >= 8
   /\ BigEndian16(call.buf, 4) > Len(call.buf) - 8) =>
    (Failed /\ outcome.ret = NoValue)

(***************************************************************************)
(* C6: length invariant -- whenever parseMessage returns a message, its    *)
(* length field equals the number of bytes of its payload.                 *)
(***************************************************************************)
C6_LengthInvariant ==
  (IsParse /\ outcome.ret.kind = "message") =>
    outcome.ret.length = Len(PayloadBytes(outcome.ret.payload))

\* A message returned for a buffer whose own length field disagrees with
\* the number of bytes it holds after the header.
C6_Witness ==
  /\ IsParse
  /\ outcome.ret.kind = "message"
  /\ Len(call.buf) >= 8
  /\ BigEndian16(call.buf, 4) # Len(call.buf) - 8

(***************************************************************************)
(* C7: when the buffer holds more than 8 + length bytes, the payload is    *)
(* exactly the length bytes at offsets 8 .. 8+length-1 and every later     *)
(* byte is ignored: parsing the buffer gives what parsing its first        *)
(* 8 + length bytes gives.                                                 *)
(***************************************************************************)
C7_TrailingBytesIgnored ==
  (/\ IsParse
   /\ Len(call.buf) >= 8
   /\ Len(call.buf) > 8 + BigEndian16(call.buf, 4)) =>
    /\ outcome.ret.kind = "message"
    /\ PayloadBytes(outcome.ret.payload)
         = SubSeq(call.buf, 9, 8 + BigEndian16(call.buf, 4))
    /\ outcome = parseMessage(SubSeq(call.buf, 1, 8 + BigEndian16(call.buf, 4)))

(***************************************************************************)
(* C8 as stated: buildMessage fails with PayloadTooLarge exactly when the  *)
(* payload is longer than 65535 bytes; with exactly 65535 bytes (and       *)
(* in-range fields) it succeeds and writes ff ff in bytes 4-5.             *)
(***************************************************************************)
C8_Boundary ==
  (ValidBuild /\ Len(PayloadBytes(call.payload)) = U16 - 1) =>
    /\ ~Failed
    /\ outcome.ret.kind = "buffer"
    /\ outcome.ret.bytes[5] = 255
    /\ outcome.ret.bytes[6] = 255

C8_Original ==
  /\ IsBuild =>
       (outcome.thrown = PayloadTooLarge
          <=> Len(PayloadBytes(call.payload)) > U16 - 1)
  /\ C8_Boundary

(***************************************************************************)
(* C8 amended: with messageId in [0, 2^32), buildMessage fails with        *)
(* PayloadTooLarge exactly when the payload is longer than 65535 bytes;    *)
(* with messageId out of range the message id write fails first, whatever  *)
(* the payload length; with exactly 65535 bytes and in-range fields it     *)
(* succeeds and writes ff ff in bytes 4-5.                                 *)
(***************************************************************************)
C8_PayloadTooLarge ==
  /\ (IsBuild /\ InU32(call.messageId)) =>
       (outcome.thrown = PayloadTooLarge
          <=> Len(PayloadBytes(call.payload)) > U16 - 1)
  /\ (IsBuild /\ ~InU32(call.messageId)) =>
       outcome.thrown = RangeError("messageId")
  /\ C8_Boundary

\* A payload of 65536 bytes refused at the length write.
C8_Witness ==
  /\ IsBuild
  /\ Len(PayloadBytes(call.payload)) = U16
  /\ outcome.thrown = PayloadTooLarge
  /\ outcome.ret = NoValue

(***************************************************************************)
(* C9 as stated: buildMessage rejects with FieldOverflow every messageId   *)
(* outside [0, 2^32) and every flags outside [0, 2^16), and never puts a   *)
(* wrapped or truncated value into a header.                               *)
(***************************************************************************)
C9_Original ==
  (IsBuild /\ (~InU32(call.messageId) \/ ~InU16(call.flags))) =>
    /\ outcome.thrown \in FieldOverflow
    /\ outcome.ret = NoValue

(***************************************************************************)
(* C9 amended: buildMessage returns no buffer for any messageId outside    *)
(* [0, 2^32) or flags outside [0, 2^16), so no wrapped or truncated value  *)
(* reaches a header; the error is FieldOverflow, except that out-of-range  *)
(* flags together with an in-range messageId and a payload longer than     *)
(* 65535 bytes are refused with PayloadTooLarge, the length being written  *)
(* before the flags.                                                       *)
(***************************************************************************)
C9_FieldOverflow ==
  /\ (IsBuild /\ ~InU32(call.messageId)) =>
       (outcome.thrown = RangeError("messageId") /\ outcome.ret = NoValue)
  /\ (IsBuild /\ InU32(call.messageId) /\ ~InU16(call.flags)) =>
       /\ outcome.ret = NoValue
       /\ outcome.thrown =
            IF Len(PayloadBytes(call.payload)) > U16 - 1
              THEN PayloadTooLarge
              ELSE RangeError("flags")

\* Flags of 2^16 refused after the message id and the length were written.
C9_Witness ==
  /\ IsBuild
  /\ InU32(call.messageId)
  /\ call.flags = U16
  /\ Len(PayloadBytes(call.payload)) <= U16 - 1
  /\ outcome.thrown = RangeError("flags")
  /\ outcome.ret = NoValue

(***************************************************************************)
(* C10: a call that reports an error hands nothing back: no buffer and no  *)
(* message, not even a partly filled one.                                  *)
(***************************************************************************)
C10_FailAtomically == Failed => outcome.ret = NoValue

\* buildMessage failing at its last header write, two fields already stored
\* in the buffer it had allocated.
C10_Witness ==
  /\ IsBuild
  /\ outcome.thrown = RangeError("flags")
  /\ Len(PayloadBytes(call.payload)) > 0
  /\ outcome.ret = NoValue

(***************************************************************************)
(* C11: parseMessage ends in exactly one of three ways -- a message, a     *)
(* TruncatedHeader failure, a TruncatedPayload failure -- and a message it *)
(* returns never carries a value standing in for bytes the buffer lacks:   *)
(* the buffer holds the 8 header bytes and the length bytes it reports.    *)
(***************************************************************************)
C11_DistinctOutcomes ==
  IsParse =>
    /\ (outcome.ret.kind = "message") # Failed
    /\ Failed => outcome.ret = NoValue
    /\ outcome.ret.kind = "message" =>
         /\ Len(call.buf) >= 8
         /\ Len(call.buf) - 8 >= outcome.ret.length
    /\ Failed => (\/ Len(call.buf) < 8
                  \/ BigEndian16(call.buf, 4) > Len(call.buf) - 8)

(***************************************************************************)
(* C12: the payload is byte-transparent -- buildMessage puts exactly the   *)
(* bytes of any byte sequence at offsets 8.. of its output, and            *)
(* parseMessage returns exactly the bytes at offsets 8 .. 8+length-1 of    *)
(* its buffer, no text encoding or decoding applied.                       *)
(***************************************************************************)
C12_ByteTransparent ==
  /\ (ValidBuild /\ call.payload.kind = "buffer") =>
       /\ outcome.ret.kind = "buffer"
       /\ SubSeq(outcome.ret.bytes, 9, Len(outcome.ret.bytes))
            = call.payload.bytes
  /\ (/\ IsParse
      /\ Len(call.buf) >= 8
      /\ Len(call.buf) - 8 >= BigEndian16(call.buf, 4)) =>
       /\ outcome.ret.kind = "message"
       /\ PayloadBytes(outcome.ret.payload)
            = SubSeq(call.buf, 9, 8 + BigEndian16(call.buf, 4))

(***************************************************************************)
(* C13: every buffer buildMessage returns is exactly 8 + (byte length of   *)
(* the payload) bytes long, the header being its first 8 bytes.            *)
(***************************************************************************)
C13_TotalSize ==
  (IsBuild /\ ~Failed) =>
    /\ outcome.ret.kind = "buffer"
    /\ Len(outcome.ret.bytes) = 8 + Len(PayloadBytes(call.payload))

\* A string of two code units that takes four bytes.
C13_Witness ==
  /\ IsBuild
  /\ call.payload = StringValue(<<55357, 56832>>)
  /\ outcome.ret.kind = "buffer"
  /\ Len(outcome.ret.bytes) = 12

(***************************************************************************)
(* Vocabulary of the properties of several calls.                          *)
(***************************************************************************)
\* What the call gives when it is the only call made.
ResultAlone(c) ==
  IF c.op = "buildMessage" THEN buildMessage(c.messageId, c.flags, c.payload)
  ELSE IF c.op = "parseMessage" THEN parseMessage(c.buf)
  ELSE Return(Undefined)

\* The number of lines the i-th call of the history printed.
LinesLogged(i) ==
  history[i].logged - (IF i = 1 THEN 0 ELSE history[i - 1].logged)

Built(i) ==
  history[i].call.op = "buildMessage" /\ history[i].outcome.thrown = NoError

\* The same operation on inputs of the same value.
SameInput(c, d) ==
  /\ c.op = d.op
  /\ c.op = "buildMessage" =>
       (c.messageId = d.messageId /\ c.flags = d.flags
          /\ c.payload = d.payload)
  /\ c.op = "parseMessage" => c.buf = d.buf
  /\ c.op = "hexdump" => c.buf = d.buf

(***************************************************************************)
(* C14: calls are independent.  In every order of buildMessage,            *)
(* parseMessage and hexdump calls, each call has the result it has when    *)
(* made alone on its argument, no call changes a buffer a caller holds or  *)
(* the sample buffer, and every buffer buildMessage returns is fresh: it   *)
(* is not its payload, not a buffer of the callers, not the buffer another *)
(* call returned, and it still holds the bytes it was returned with.       *)
(***************************************************************************)
C14_Independent ==
  /\ binaryMessage = SampleBytes
  /\ \A r \in 1..Len(CallerBuffers) :
       Len(heap) >= r => heap[r] = CallerBuffers[r]
  /\ \A i \in 1..Len(history) :
       /\ history[i].outcome = ResultAlone(history[i].call)
       /\ history[i].call.op = "hexdump" =>
            LinesLogged(i) = (Len(history[i].call.buf.bytes) + 15) \div 16
       /\ Built(i) =>
            /\ heap[history[i].call.ret] = history[i].outcome.ret.bytes
            /\ history[i].call.ret # history[i].call.arg
            /\ history[i].call.ret > Len(CallerBuffers)
            /\ \A j \in 1..Len(history) :
                 (j # i /\ Built(j)) =>
                   history[j].call.ret # history[i].call.ret

\* A buffer is built, dumped, and then used as the payload of a second one.
C14_Witness ==
  /\ Len(history) = 3
  /\ Built(1)
  /\ history[2].call.op = "hexdump"
  /\ history[2].call.arg = history[1].call.ret
  /\ Built(3)
  /\ history[3].call.arg = history[1].call.ret

(***************************************************************************)
(* C15: buildMessage and parseMessage are deterministic: two calls with    *)
(* identical inputs have identical results (the same error, or buffers     *)
(* equal byte for byte, or messages equal field for field), whatever calls *)
(* were made in between.                                                   *)
(***************************************************************************)
C15_Deterministic ==
  \A i, j \in 1..Len(history) :
    (/\ history[i].call.op \in {"buildMessage", "parseMessage"}
     /\ SameInput(history[i].call, history[j].call)) =>
      /\ history[i].outcome = history[j].outcome
      /\ (Built(i) /\ Built(j)) =>
           heap[history[i].call.ret] = heap[history[j].call.ret]

\* The same buffer is parsed before and after a buildMessage call, and the
\* same message built before and after a parseMessage call.
C15_Witness ==
  /\ Len(history) = 3
  /\ history[1].call.op = "parseMessage"
  /\ Built(2)
  /\ history[3].call.op = "parseMessage"
  /\ history[3].call.buf = history[1].call.buf

(***************************************************************************)
(* Vocabulary of the hexdump properties.                                   *)
(***************************************************************************)
IsDump == call.op = "hexdump"

\* A line has been printed; the latest one is that of the chunk starting
\* at PrintedOffset.
Printed == IsDump /\ consoleCalls > 0
PrintedOffset == loopOffset - 16

\* The byte at offset k of the buffer handed to hexdump.
SourceByte(k) ==
  IF call.buf.kind = "filled"
    THEN call.buf.fill[(k % Len(call.buf.fill)) + 1]
    ELSE call.buf.bytes[k + 1]

SourceLength ==
  IF call.buf.kind = "filled" THEN call.buf.length ELSE Len(call.buf.bytes)

\* The source bytes of the latest line: 16, or what is left of the buffer.
PrintedChunk ==
  LET left == SourceLength - PrintedOffset
      n == IF left < 16 THEN left ELSE 16
  IN [i \in 1..n |-> SourceByte(PrintedOffset + i - 1)]

IsLowerHexDigit(c) == (c >= 48 /\ c <= 57) \/ (c >= 97 /\ c <= 102)
HexDigitValue(c) == IF c <= 57 THEN c - 48 ELSE c - 87

RECURSIVE HexValue(_)
HexValue(text) ==
  IF Len(text) = 0 THEN 0
  ELSE HexValue(SubSeq(text, 1, Len(text) - 1)) * 16
         + HexDigitValue(text[Len(text)])

\* The tokens of text between runs of spaces.
RECURSIVE SplitFrom(_, _, _)
SplitFrom(text, i, token) ==
  IF i > Len(text) THEN (IF token = <<>> THEN <<>> ELSE <<token>>)
  ELSE IF text[i] = 32
    THEN (IF token = <<>> THEN <<>> ELSE <<token>>)
           \o SplitFrom(text, i + 1, <<>>)
  ELSE SplitFrom(text, i + 1, Append(token, text[i]))

SplitOnSpaces(text) == SplitFrom(text, 1, <<>>)

(***************************************************************************)
(* C16: no operation performs I/O or touches state other than its argument *)
(* and its return value; hexdump hands its lines back as the sequence it   *)
(* returns.                                                                *)
(***************************************************************************)
C16_NoIO ==
  /\ consoleCalls = 0
  /\ binaryMessage = SampleBytes
  /\ (IsDump /\ pc = "done") => outcome.ret.kind = "lines"

(***************************************************************************)
(* C17: hexdump produces exactly ceil(length / 16) lines, none at all for  *)
(* a zero-length buffer.                                                   *)
(***************************************************************************)
C17_LineCount ==
  (IsDump /\ pc = "done") =>
    /\ consoleCalls = (SourceLength + 15) \div 16
    /\ SourceLength = 0 => consoleCalls = 0

\* The source's own test: 46 bytes, 3 lines.
C17_Witness ==
  /\ IsDump
  /\ pc = "done"
  /\ call.buf = BufferValue(TestBuf)
  /\ consoleCalls = 3

(***************************************************************************)
(* C18: the hex column of every line, split on whitespace and each token   *)
(* read as a hexadecimal byte, gives back the source bytes of the line's   *)
(* chunk in order; each token is two lowercase hex digits, one per byte.   *)
(***************************************************************************)
C18_HexColumnReparses ==
  Printed =>
    LET tokens == SplitOnSpaces(consoleArgs[3])
    IN /\ Len(tokens) = Len(PrintedChunk)
       /\ \A i \in 1..Len(tokens) :
            /\ Len(tokens[i]) = 2
            /\ IsLowerHexDigit(tokens[i][1])
            /\ IsLowerHexDigit(tokens[i][2])
            /\ HexValue(tokens[i]) = PrintedChunk[i]

\* The line of the byte values 0..15.
C18_Witness ==
  /\ Printed
  /\ call.buf = BufferValue(Ramp)
  /\ PrintedOffset = 0
  /\ Len(SplitOnSpaces(consoleArgs[3])) = 16

(***************************************************************************)
(* C19 as stated: the offset field of every line is exactly 4 lowercase    *)
(* hexadecimal digits, zero-padded, whatever the buffer length.            *)
(***************************************************************************)
C19_Original ==
  Printed =>
    /\ Len(consoleArgs[1]) = 4
    /\ \A i \in 1..Len(consoleArgs[1]) : IsLowerHexDigit(consoleArgs[1][i])

(***************************************************************************)
(* C19 amended: the offset field of every line is the chunk's offset in    *)
(* lowercase hexadecimal, zero-padded to at least 4 digits: exactly 4      *)
(* digits for offsets below 0x10000, and the offset's own digits (5 or     *)
(* more, no leading zero) from 0x10000 on.                                 *)
(***************************************************************************)
C19_OffsetField ==
  Printed =>
    /\ \A i \in 1..Len(consoleArgs[1]) : IsLowerHexDigit(consoleArgs[1][i])
    /\ HexValue(consoleArgs[1]) = PrintedOffset
    /\ PrintedOffset < U16 => Len(consoleArgs[1]) = 4
    /\ PrintedOffset >= U16 =>
         (Len(consoleArgs[1]) > 4 /\ consoleArgs[1][1] # 48)

\* The line at offset 0x10000, printed as 10000.
C19_Witness ==
  /\ Printed
  /\ PrintedOffset = U16
  /\ consoleArgs[1] = <<49, 48, 48, 48, 48>>

(***************************************************************************)
(* C20: the ASCII column of every line has one character per source byte   *)
(* of its chunk, in order: the byte's own character for 32 <= b <= 126,    *)
(* "." for every other byte value.                                         *)
(***************************************************************************)
C20_AsciiColumn ==
  Printed =>
    /\ Len(consoleArgs[5]) = Len(PrintedChunk)
    /\ \A i \in 1..Len(PrintedChunk) :
         consoleArgs[5][i] =
           IF 32 <= PrintedChunk[i] /\ PrintedChunk[i] <= 126
             THEN PrintedChunk[i]
             ELSE 46

\* The line of the byte values 112..127: "pqrstuvwxyz{|}~" and one ".".
C20_Witness ==
  /\ Printed
  /\ call.buf = BufferValue(Ramp)
  /\ PrintedOffset = 112
  /\ consoleArgs[5][15] = 126
  /\ consoleArgs[5][16] = 46

(***************************************************************************)
(* C21: hexdump emits its lines in the buffer's natural order.  The k-th   *)
(* line (k = 0, 1, ...) carries the offset 16 * k, and from one emitted    *)
(* line to the next the offset grows by exactly 16, so that no line comes  *)
(* twice or out of order.                                                  *)
(***************************************************************************)
C21_NaturalOrder ==
  /\ [](Printed => HexValue(consoleArgs[1]) = 16 * (consoleCalls - 1))
  /\ [][(consoleCalls > 0 /\ consoleCalls' # consoleCalls) =>
          /\ consoleCalls' = consoleCalls + 1
          /\ HexValue(consoleArgs'[1]) = HexValue(consoleArgs[1]) + 16]_vars

\* The third line of the source's own test, at offset 0020.
C21_Witness ==
  /\ Printed
  /\ call.buf = BufferValue(TestBuf)
  /\ consoleCalls = 3
  /\ consoleArgs[1] = <<48, 48, 50, 48>>

(***************************************************************************)
(* C22: the chunks of the lines partition the buffer.  Every line covers   *)
(* the bytes from its offset on: exactly 16 of them unless it is the last  *)
(* line, which covers the 1 to 16 bytes up to the end of the buffer; the   *)
(* lines before it cover the 16-byte chunks before its offset, so every    *)
(* source byte is in exactly one line.                                     *)
(***************************************************************************)
C22_Partition ==
  Printed =>
    LET start == HexValue(consoleArgs[1])
        n == Len(consoleArgs[5])
    IN /\ start = 16 * (consoleCalls - 1)
       /\ n >= 1 /\ n <= 16
       /\ Len(SplitOnSpaces(consoleArgs[3])) = n
       /\ start + n <= SourceLength
       /\ start + n < SourceLength => n = 16
       /\ pc = "done" => start + n = SourceLength

\* 20 bytes: the line 0000 had 16 bytes, the line 0010 has the other 4.
C22_Witness ==
  /\ Printed
  /\ pc = "done"
  /\ SourceLength = 20
  /\ consoleCalls = 2
  /\ consoleArgs[1] = <<48, 48, 49, 48>>
  /\ Len(consoleArgs[5]) = 4

(***************************************************************************)
(* Vocabulary: the number of characters that precede the ASCII column in   *)
(* the latest line written, and in the first line of the call.             *)
(***************************************************************************)
AsciiStart == Len(ConsoleLine(consoleArgs)) - Len(consoleArgs[5])

FirstLineAsciiStart ==
  Len(ConsoleLine(LineArgs(call.buf, 0))) - Len(LineArgs(call.buf, 0)[5])

(***************************************************************************)
(* C23 as stated: the padded hex column of every line is 16 * 3 = 48       *)
(* characters wide whether the chunk holds 16 bytes or fewer, so the ASCII *)
(* column starts at the same position in every line.                       *)
(***************************************************************************)
C23_Original ==
  Printed =>
    /\ Len(consoleArgs[3]) = 48
    /\ AsciiStart = FirstLineAsciiStart

(***************************************************************************)
(* C23 amended: the padded hex column of every line is 48 characters wide  *)
(* whether the chunk holds 16 bytes or fewer; the ASCII column starts at   *)
(* the same position in every line whose offset is below 0x10000, and one  *)
(* position further right for each digit beyond four of the offset field   *)
(* from offset 0x10000 on.                                                 *)
(***************************************************************************)
C23_FixedWidth ==
  Printed =>
    /\ Len(consoleArgs[3]) = 48
    /\ HexValue(consoleArgs[1]) < U16 => AsciiStart = FirstLineAsciiStart
    /\ HexValue(consoleArgs[1]) >= U16 =>
         AsciiStart = FirstLineAsciiStart + Len(consoleArgs[1]) - 4

\* The one-byte line at offset 0x10000: the hex column is 48 wide, the
\* ASCII column one position to the right of where the first line had it.
C23_Witness ==
  /\ Printed
  /\ HexValue(consoleArgs[1]) = U16
  /\ Len(consoleArgs[5]) = 1
  /\ Len(consoleArgs[3]) = 48
  /\ AsciiStart = FirstLineAsciiStart + 1

(***************************************************************************)
(* C24: hexdump has no error outcome.  For every buffer, of any length     *)
(* (0 included) and any byte values, no error is thrown at any point of    *)
(* the call, and the call ends by returning, the whole buffer having been  *)
(* gone through.                                                           *)
(***************************************************************************)
C24_NoErrorOutcome ==
  IsDump =>
    /\ outcome.thrown = NoError
    /\ pc = "done" =>
         (outcome = Return(Undefined) /\ loopOffset >= SourceLength)

\* The buffer of all 256 byte values has been dumped.
C24_Witness ==
  /\ IsDump
  /\ call.buf = BufferValue(Ramp)
  /\ pc = "done"
  /\ consoleCalls = 16
  /\ outcome = Return(Undefined)

(***************************************************************************)
(* C25: the length field and the payload always agree.  A buffer whose     *)
(* length field asks for more payload bytes than it holds is refused       *)
(* (LengthMismatch, as validate_length_field(declared, actual) reports     *)
(* whenever the two differ), never answered with a payload cut short or    *)
(* filled up; a message that is returned has the length the buffer         *)
(* declares and a payload of that many bytes; and a buffer that            *)
(* buildMessage returns declares the number of payload bytes it carries.   *)
(***************************************************************************)
C25_LengthAgreement ==
  /\ (IsParse /\ Len(call.buf) >= 8) =>
       IF BigEndian16(call.buf, 4) > Len(call.buf) - 8
         THEN Failed
         ELSE ~Failed =>
                /\ outcome.ret.length = BigEndian16(call.buf, 4)
                /\ Len(PayloadBytes(outcome.ret.payload))
                     = BigEndian16(call.buf, 4)
  /\ (IsBuild /\ ~Failed) =>
       BigEndian16(outcome.ret.bytes, 4) = Len(outcome.ret.bytes) - 8

(***************************************************************************)
(* C26: every call of hexdump terminates.  The loop offset starts at 0 and *)
(* grows by 16 with each line, never beyond the first multiple of 16 at or *)
(* past the buffer length, so finitely many lines are emitted; and a call  *)
(* that is in its loop eventually finishes, with offset >= buffer length.  *)
(***************************************************************************)
C26_Terminates ==
  /\ []((IsDump /\ pc = "loop") =>
          /\ loopOffset = 16 * consoleCalls
          /\ loopOffset < SourceLength + 16)
  /\ (IsDump /\ pc = "loop") ~>
       (IsDump /\ pc = "done" /\ loopOffset >= SourceLength)

\* The dump of the 256-byte buffer is over, after 16 lines.
C26_Witness ==
  /\ IsDump
  /\ pc = "done"
  /\ SourceLength = 256
  /\ consoleCalls = 16
  /\ loopOffset >= SourceLength

(***************************************************************************)
(* C27: re-encoding undoes decoding on exact-size buffers.  For every      *)
(* buffer b of exactly 8 + (its declared length) bytes, with               *)
(* m = parseMessage(b), buildMessage(m.messageId, m.flags, m.payload)      *)
(* succeeds and returns a buffer equal to b byte for byte.                 *)
(***************************************************************************)
IsBuildBack == IsBuild /\ "of" \in DOMAIN call

C27_ReEncode ==
  (/\ IsBuildBack
   /\ Len(call.of.buf) >= 8
   /\ Len(call.of.buf) = 8 + BigEndian16(call.of.buf, 4)) =>
    (~Failed /\ outcome.ret.bytes = call.of.buf)

(***************************************************************************)
(* C28: buildMessage is injective on valid inputs.  Two valid triples      *)
(* (messageId, flags, payload) that differ in a component never give the   *)
(* same buffer: the triple of the call is compared with the triples that   *)
(* differ from it in the message id, the flags or the payload (a short     *)
(* payload of the same type, string or Buffer, as that of the call).       *)
(***************************************************************************)
OtherPayloads ==
  IF call.payload.kind = "string"
    THEN {StringValue(u) : u \in SeqsUpTo(StrUnits, 1)}
    ELSE {BufferValue(b) : b \in SeqsUpTo(BufBytes, 1)}

OtherTriples ==
  {[messageId |-> id, flags |-> f, payload |-> p] :
     id \in {call.messageId, Wide(0, 0), Wide(0, 4128)},
     f \in {call.flags, 0, 258},
     p \in OtherPayloads \cup {call.payload}}

C28_Injective ==
  (ValidBuild /\ ~Failed) =>
    \A t \in OtherTriples :
      (/\ InU32(t.messageId)
       /\ InU16(t.flags)
       /\ t # [messageId |-> call.messageId, flags |-> call.flags,
               payload |-> call.payload]) =>
        buildMessage(t.messageId, t.flags, t.payload) # outcome

(***************************************************************************)
(* C29: every message parseMessage returns for a buffer of at least 8      *)
(* bytes, whatever its byte values, has its messageId in [0, 2^32), its    *)
(* length in [0, 2^16) and its flags in [0, 2^16).                         *)
(***************************************************************************)
C29_FieldRanges ==
  (IsParse /\ Len(call.buf) >= 8 /\ outcome.ret.kind = "message") =>
    /\ InU32(outcome.ret.messageId)
    /\ InU16(outcome.ret.length)
    /\ InU16(outcome.ret.flags)

\* A message has been returned for a buffer with header bytes 01 02 03 04
\* and a tail byte ff.
C29_Witness ==
  /\ IsParse
  /\ Len(call.buf) = 9
  /\ SubSeq(call.buf, 1, 4) = <<1, 2, 3, 4>>
  /\ call.buf[9] = 255
  /\ outcome.ret.kind = "message"

(***************************************************************************)
(* C30: inputs are left unchanged.  After any call of buildMessage,        *)
(* parseMessage or hexdump, whether it returned or threw, the Buffer       *)
(* passed to it holds the bytes it held when the call was made, and so     *)
(* does the sample buffer binaryMessage.                                   *)
(***************************************************************************)
\* The bytes of the Buffer argument of the call c when the call was made.
ArgBytes(c) ==
  IF c.op = "buildMessage" THEN c.payload.bytes
  ELSE IF c.op = "parseMessage" THEN c.buf
  ELSE c.buf.bytes

C30_InputsUnchanged ==
  /\ binaryMessage = SampleBytes
  /\ (call # NoCall /\ call.arg > 0) => heap[call.arg] = ArgBytes(call)
  /\ \A i \in 1..Len(history) :
       history[i].call.arg > 0 =>
         heap[history[i].call.arg] = ArgBytes(history[i].call)

\* A buildMessage call that threw, a buildMessage call that returned, and
\* a hexdump call, all three on the same buffer.
C30_Witness ==
  /\ Len(history) = 3
  /\ history[1].call.op = "buildMessage"
  /\ history[1].outcome.thrown # NoError
  /\ history[1].call.arg = 2
  /\ Built(2)
  /\ history[2].call.arg = 2
  /\ history[3].call.op = "hexdump"
  /\ history[3].call.arg = 2

====
